---- MODULE Spec2Model ----
(***************************************************************************)
(* A model of the notebook grouping-merging.ipynb: an interactive session  *)
(* whose state is the namespace of bound names and the outcome of the      *)
(* cell that ran last, with one action per code cell.  The table           *)
(* operations the cells call (DataFrame construction, groupby, apply,      *)
(* mean, concat, merge) are operators computed the way the notebook's      *)
(* text, comments and recorded outputs describe them.                      *)
(***************************************************************************)
EXTENDS Integers, Sequences, FiniteSets, TLC

VARIABLES ns, last

vars == <<ns, last>>

(***************************************************************************)
(* Bounds of the generated inputs.                                         *)
(***************************************************************************)
MaxRows == 3

MaxLen == 2

MaxKey == 3

(***************************************************************************)
(* Values.  A cell of a table is <<v>> when it holds v and <<>> when it is *)
(* a missing value; a name of the namespace is <<v>> when bound to v and   *)
(* <<>> when unbound.                                                      *)
(***************************************************************************)
V(x) == <<x>>

NaN == <<>>

Unbound == <<>>

None == [kind |-> "None"]

Iota(n) == [i \in 1..n |-> i]

RangeIndex(n) == [i \in 1..n |-> i - 1]

Max(a, b) == IF a >= b THEN a ELSE b

RECURSIVE SumSeq(_)
SumSeq(s) == IF s = <<>> THEN 0 ELSE Head(s) + SumSeq(Tail(s))

RECURSIVE GCD(_, _)
GCD(a, b) == IF b = 0 THEN a ELSE GCD(b, a % b)

Elems(s) == {s[i] : i \in 1..Len(s)}

\* the first occurrences of the elements of s, in order
Unique(s) ==
    LET keep == SelectSeq(Iota(Len(s)), LAMBDA i : \A j \in 1..(i - 1) : s[j] # s[i])
    IN [k \in 1..Len(keep) |-> s[keep[k]]]

(***************************************************************************)
(* The literals of the notebook.                                           *)
(***************************************************************************)
scoreboard ==
    << [player |-> "kewld00d1", best_score |-> 100, last_score |-> 100, country |-> "gr", level |-> "n00b"],
       [player |-> "saphyre", best_score |-> 250, last_score |-> 120, country |-> "gr", level |-> "n00b"],
       [player |-> "chckn0rris", best_score |-> 300, last_score |-> 200, country |-> "gr", level |-> "expert"],
       [player |-> "pumpkin", best_score |-> 550, last_score |-> 20, country |-> "gr", level |-> "expert"],
       [player |-> "tr0llhuntah", best_score |-> 200, last_score |-> 150, country |-> "no", level |-> "n00b"],
       [player |-> "nynja", best_score |-> 100, last_score |-> 100, country |-> "no", level |-> "expert"],
       [player |-> "angel90210", best_score |-> 400, last_score |-> 200, country |-> "no", level |-> "expert"],
       [player |-> "111111", best_score |-> 50, last_score |-> 50, country |-> "no", level |-> "n00b"] >>

ScoreColumns == <<"player", "best_score", "last_score", "country", "level">>

ScoreDtypes == <<"object", "int64", "int64", "object", "object">>

raw_tweets ==
    << [screenname |-> "wunderkid", id_str |-> "928374987",
        text |-> "Woah, pandas is so much fun #worldrocked #jawdrop #ml",
        hashtags |-> <<"worldrocked", "jawdrop", "ml">>],
       [screenname |-> "pumpkin", id_str |-> "98214039",
        text |-> "I stay up all night dreaming of linear models #datascience #ml",
        hashtags |-> <<"datascience", "ml">>] >>

TweetColumns == <<"screenname", "id_str", "text", "hashtags">>

\* the order Python gives the strings that are used as group keys
StrOrder == <<"expert", "gr", "n00b", "no">>

StrRank(s) == CHOOSE i \in 1..Len(StrOrder) : StrOrder[i] = s

(***************************************************************************)
(* Tables.  A DataFrame is a record of its index labels, its column names, *)
(* the column dtypes and its rows (one sequence of cells per row); a       *)
(* Series is a record of its index labels and its values.                  *)
(***************************************************************************)
\* pd.DataFrame(list of dicts, columns=cols): one row per dict, index 0..n-1
DataFrameFromRecords(recs, cols, dtypes) ==
    [kind |-> "DataFrame",
     index |-> RangeIndex(Len(recs)),
     columns |-> cols,
     dtypes |-> dtypes,
     rows |-> [i \in 1..Len(recs) |-> [j \in 1..Len(cols) |-> V(recs[i][cols[j]])]]]

RECURSIVE MaxLenOf(_)
MaxLenOf(ss) == IF ss = <<>> THEN 0 ELSE Max(Len(Head(ss)), MaxLenOf(Tail(ss)))

\* pd.DataFrame({name: pd.Series(values), ...}): the index is the union of
\* the series' indexes 0..len-1, a series that is shorter leaves missing values
DataFrameFromSeries(cols, ss) ==
    LET n == MaxLenOf(ss) IN
    [kind |-> "DataFrame",
     index |-> RangeIndex(n),
     columns |-> cols,
     dtypes |-> [j \in 1..Len(cols) |-> IF Len(ss[j]) < n THEN "float64" ELSE "int64"],
     rows |-> [i \in 1..n |-> [j \in 1..Len(cols) |-> IF i <= Len(ss[j]) THEN V(ss[j][i]) ELSE NaN]]]

NRows(f) == Len(f.rows)

HasColumn(f, c) == \E j \in 1..Len(f.columns) : f.columns[j] = c

\* position of the first column named c
ColPos(f, c) == CHOOSE j \in 1..Len(f.columns) : f.columns[j] = c /\ \A k \in 1..(j - 1) : f.columns[k] # c

\* f.c : the column as a Series
Column(f, c) == [kind |-> "Series", index |-> f.index, values |-> [i \in 1..NRows(f) |-> f.rows[i][ColPos(f, c)]]]

\* Take, renumbering the rows it takes
Take_m(f, pos) ==
    [kind |-> "DataFrame",
     index |-> RangeIndex(Len(pos)),
     columns |-> f.columns,
     dtypes |-> f.dtypes,
     rows |-> [k \in 1..Len(pos) |-> f.rows[pos[k]]]]

\* the rows at the given positions, with their index labels
Take(f, pos) ==
    [kind |-> "DataFrame",
     index |-> [k \in 1..Len(pos) |-> f.index[pos[k]]],
     columns |-> f.columns,
     dtypes |-> f.dtypes,
     rows |-> [k \in 1..Len(pos) |-> f.rows[pos[k]]]]

\* Series.mean(): the sum of the values that are present over their count,
\* as a fraction in lowest terms; NaN when there is none
Mean(s) ==
    LET present == SelectSeq(s.values, LAMBDA c : c # NaN)
        total == SumSeq([i \in 1..Len(present) |-> present[i][1]])
        n == Len(present)
        g == GCD(IF total < 0 THEN -total ELSE total, n)
    IN IF n = 0 THEN [kind |-> "NaN"] ELSE [kind |-> "float", num |-> total \div g, den |-> n \div g]

\* pd.DataFrame(): the table with no row and no column
EmptyDataFrame == [kind |-> "DataFrame", index |-> <<>>, columns |-> <<>>, dtypes |-> <<>>, rows |-> <<>>]

\* the (label, value) entries of a Series, the (label, row) entries of a DataFrame
Entries(x) ==
    IF x.kind = "Series"
    THEN [i \in 1..Len(x.index) |-> <<x.index[i], x.values[i]>>]
    ELSE [i \in 1..Len(x.index) |-> <<x.index[i], x.rows[i]>>]

(***************************************************************************)
(* Split-apply-combine.                                                    *)
(***************************************************************************)
\* the values of row i in the grouping columns
RowKey(f, by, i) == [j \in 1..Len(by) |-> f.rows[i][ColPos(f, by[j])][1]]

\* the label a key gets: the value itself when grouping by one column, the
\* tuple of values otherwise
Label(key) == IF Len(key) = 1 THEN key[1] ELSE key

\* keys compare column by column, strings as Python orders them
KeyLess(a, b) ==
    \E j \in 1..Len(a) : /\ \A k \in 1..(j - 1) : a[k] = b[k]
                         /\ StrRank(a[j]) < StrRank(b[j])

RECURSIVE SortKeys(_)
SortKeys(S) ==
    IF S = {} THEN <<>>
    ELSE LET m == CHOOSE x \in S : \A y \in S : y = x \/ KeyLess(x, y)
         IN <<m>> \o SortKeys(S \ {m})

\* df.groupby(by): the (key, mini-dataframe) pairs in the order of the
\* sorted keys; a mini-dataframe is the rows of df that have the key
GroupBy(f, by) ==
    LET keys == SortKeys({RowKey(f, by, i) : i \in 1..NRows(f)}) IN
    [g \in 1..Len(keys) |->
        [key |-> keys[g],
         frame |-> Take(f, SelectSeq(Iota(NRows(f)), LAMBDA i : RowKey(f, by, i) = keys[g]))]]

\* groupby(...).apply(func), given the value of func on every mini-dataframe
\* (a scalar or None): the values indexed by the keys; the empty table when
\* func returned None for every group
Apply(groups, res) ==
    IF \A g \in 1..Len(groups) : res[g] = None
    THEN EmptyDataFrame
    ELSE [kind |-> "Series",
          index |-> [g \in 1..Len(groups) |-> Label(groups[g].key)],
          values |-> res]

\* groupby(by).mean(): one row per key with the mean of every numeric
\* column that is not a grouping column
GroupByMean(f, by) ==
    LET groups == GroupBy(f, by)
        num == SelectSeq(Iota(Len(f.columns)),
                         LAMBDA j : f.dtypes[j] \in {"int64", "float64"} /\ f.columns[j] \notin Elems(by))
    IN [kind |-> "DataFrame",
        index |-> [g \in 1..Len(groups) |-> Label(groups[g].key)],
        columns |-> [k \in 1..Len(num) |-> f.columns[num[k]]],
        dtypes |-> [k \in 1..Len(num) |-> "float64"],
        rows |-> [g \in 1..Len(groups) |->
                    [k \in 1..Len(num) |-> V(Mean(Column(groups[g].frame, f.columns[num[k]])))]]]

(***************************************************************************)
(* The functions the notebook defines.                                     *)
(***************************************************************************)
\* get_mean, reading the other score column
get_mean_m(df) == Mean(Column(df, "last_score"))

get_mean(df) == Mean(Column(df, "best_score"))

best_player(df) == df

level_mean(df) == None

(***************************************************************************)
(* Combining tables.                                                       *)
(***************************************************************************)
RECURSIVE Flatten(_)
Flatten(ss) == IF ss = <<>> THEN <<>> ELSE Head(ss) \o Flatten(Tail(ss))

RECURSIVE SortInts(_)
SortInts(S) ==
    IF S = {} THEN <<>>
    ELSE LET m == CHOOSE x \in S : \A y \in S : x <= y IN <<m>> \o SortInts(S \ {m})

\* an integer column that received a missing value becomes a float column
Upcast(dtype, rows, j) ==
    IF dtype = "int64" /\ \E i \in 1..Len(rows) : rows[i][j] = NaN THEN "float64" ELSE dtype

\* the cells of row i of f under the column names cols, missing where f has no such column
RowByColumns(f, i, cols) ==
    [j \in 1..Len(cols) |-> IF HasColumn(f, cols[j]) THEN f.rows[i][ColPos(f, cols[j])] ELSE NaN]

\* the dtype of the column named c in the first of a, b that has it
DtypeOf(a, b, c) == IF HasColumn(a, c) THEN a.dtypes[ColPos(a, c)] ELSE b.dtypes[ColPos(b, c)]

\* ConcatAxis0, renumbering the rows
ConcatAxis0_m(a, b) ==
    LET cols == Unique(a.columns \o b.columns)
        rows == [i \in 1..NRows(a) |-> RowByColumns(a, i, cols)]
                \o [i \in 1..NRows(b) |-> RowByColumns(b, i, cols)]
    IN [kind |-> "DataFrame",
        index |-> RangeIndex(Len(rows)),
        columns |-> cols,
        dtypes |-> [j \in 1..Len(cols) |-> Upcast(DtypeOf(a, b, cols[j]), rows, j)],
        rows |-> rows]

\* pd.concat([a, b], axis=0): the rows of a then the rows of b with their own
\* index labels, lined up by column name
ConcatAxis0(a, b) ==
    LET cols == Unique(a.columns \o b.columns)
        rows == [i \in 1..NRows(a) |-> RowByColumns(a, i, cols)]
                \o [i \in 1..NRows(b) |-> RowByColumns(b, i, cols)]
    IN [kind |-> "DataFrame",
        index |-> a.index \o b.index,
        columns |-> cols,
        dtypes |-> [j \in 1..Len(cols) |-> Upcast(DtypeOf(a, b, cols[j]), rows, j)],
        rows |-> rows]

\* the cells of the row of f labelled l, missing where f has no such label
RowByLabel(f, l) ==
    IF \E i \in 1..NRows(f) : f.index[i] = l
    THEN f.rows[CHOOSE i \in 1..NRows(f) : f.index[i] = l]
    ELSE [j \in 1..Len(f.columns) |-> NaN]

\* ConcatAxis1, keeping only the labels both frames have
ConcatAxis1_m(a, b) ==
    LET idx == SelectSeq(a.index, LAMBDA l : l \in Elems(b.index))
        rows == [i \in 1..Len(idx) |-> RowByLabel(a, idx[i]) \o RowByLabel(b, idx[i])]
    IN [kind |-> "DataFrame",
        index |-> idx,
        columns |-> a.columns \o b.columns,
        dtypes |-> a.dtypes \o b.dtypes,
        rows |-> rows]

\* pd.concat([a, b], axis=1): the columns of a then the columns of b, lined
\* up by index label
ConcatAxis1(a, b) ==
    LET idx == Unique(a.index \o b.index)
        rows == [i \in 1..Len(idx) |-> RowByLabel(a, idx[i]) \o RowByLabel(b, idx[i])]
        dts == a.dtypes \o b.dtypes
    IN [kind |-> "DataFrame",
        index |-> idx,
        columns |-> a.columns \o b.columns,
        dtypes |-> [j \in 1..Len(dts) |-> Upcast(dts[j], rows, j)],
        rows |-> rows]

\* the key of row i of f: its cell in the column named on
KeyOf(f, on, i) == f.rows[i][ColPos(f, on)]

KeySet(f, on) == {KeyOf(f, on, i) : i \in 1..NRows(f)}

\* the suffixes merge gives a column name that both frames have
SuffixX(c) == CASE c = "A" -> "A_x" [] c = "B" -> "B_x" [] c = "C" -> "C_x" [] OTHER -> c

SuffixY(c) == CASE c = "A" -> "A_y" [] c = "B" -> "B_y" [] c = "C" -> "C_y" [] OTHER -> c

\* the positions of the columns of r other than the key
OtherColumns(r, on) == SelectSeq(Iota(Len(r.columns)), LAMBDA j : r.columns[j] # on)

\* the rows of a merge: the cells of l then the cells of r's other columns,
\* one row per pair of rows with equal keys and, as how says, one row per
\* row of l or r without a match, its missing side filled with NaN
MergeRows(l, r, how, on) ==
    LET rrest == OtherColumns(r, on)
        pair(i, j) == l.rows[i] \o [k \in 1..Len(rrest) |-> r.rows[j][rrest[k]]]
        leftOnly(i) == l.rows[i] \o [k \in 1..Len(rrest) |-> NaN]
        rightOnly(j) == [c \in 1..Len(l.columns) |-> IF l.columns[c] = on THEN KeyOf(r, on, j) ELSE NaN]
                        \o [k \in 1..Len(rrest) |-> r.rows[j][rrest[k]]]
        rightOf(i) == SelectSeq(Iota(NRows(r)), LAMBDA j : KeyOf(r, on, j) = KeyOf(l, on, i))
        leftOf(j) == SelectSeq(Iota(NRows(l)), LAMBDA i : KeyOf(l, on, i) = KeyOf(r, on, j))
        fromLeft(i, keep) ==
            IF rightOf(i) = <<>> THEN (IF keep THEN <<leftOnly(i)>> ELSE <<>>)
            ELSE [m \in 1..Len(rightOf(i)) |-> pair(i, rightOf(i)[m])]
        fromRight(j, keep) ==
            IF leftOf(j) = <<>> THEN (IF keep THEN <<rightOnly(j)>> ELSE <<>>)
            ELSE [m \in 1..Len(leftOf(j)) |-> pair(leftOf(j)[m], j)]
        keys == SortInts({k[1] : k \in KeySet(l, on) \cup KeySet(r, on)})
        ofKey(k) ==
            LET li == SelectSeq(Iota(NRows(l)), LAMBDA i : KeyOf(l, on, i) = V(k))
                rj == SelectSeq(Iota(NRows(r)), LAMBDA j : KeyOf(r, on, j) = V(k))
            IN IF li = <<>> THEN [m \in 1..Len(rj) |-> rightOnly(rj[m])]
               ELSE Flatten([m \in 1..Len(li) |-> fromLeft(li[m], TRUE)])
    IN CASE how = "inner" -> Flatten([i \in 1..NRows(l) |-> fromLeft(i, FALSE)])
         [] how = "left" -> Flatten([i \in 1..NRows(l) |-> fromLeft(i, TRUE)])
         [] how = "right" -> Flatten([j \in 1..NRows(r) |-> fromRight(j, TRUE)])
         [] how = "outer" -> Flatten([m \in 1..Len(keys) |-> ofKey(keys[m])])

\* the merged table of the given rows: a fresh index 0..n-1, the columns of
\* l then the other columns of r, a shared name suffixed _x and _y
MergeFrame(l, r, rows, on) ==
    LET rrest == OtherColumns(r, on)
        dts == l.dtypes \o [k \in 1..Len(rrest) |-> r.dtypes[rrest[k]]]
    IN [kind |-> "DataFrame",
        index |-> RangeIndex(Len(rows)),
        columns |-> [c \in 1..Len(l.columns) |->
                        IF l.columns[c] # on /\ HasColumn(r, l.columns[c])
                        THEN SuffixX(l.columns[c]) ELSE l.columns[c]]
                    \o [k \in 1..Len(rrest) |->
                        IF HasColumn(l, r.columns[rrest[k]])
                        THEN SuffixY(r.columns[rrest[k]]) ELSE r.columns[rrest[k]]],
        dtypes |-> [j \in 1..Len(dts) |-> Upcast(dts[j], rows, j)],
        rows |-> rows]

\* Merge, an outer merge keeping only the keys of l
Merge_m(l, r, how, on) ==
    MergeFrame(l, r, MergeRows(l, r, IF how = "outer" THEN "left" ELSE how, on), on)

\* pd.merge(l, r, how=how, on=on)
Merge(l, r, how, on) == MergeFrame(l, r, MergeRows(l, r, how, on), on)

(***************************************************************************)
(* The session.  ns maps every name of the notebook to <<value>> or to     *)
(* Unbound; last is the cell that ran last and its outcome: the value it   *)
(* displays or prints, or the name whose lookup raised NameError.          *)
(***************************************************************************)
Names == {"pd", "scoreboard", "df", "group", "mini_df", "get_mean", "best_player",
          "level_mean", "df1", "df2", "raw_tweets", "tweets"}

NoNames == [n \in Names |-> Unbound]

Bind(n, name, v) == [n EXCEPT ![name] = V(v)]

Ok(v) == [status |-> "ok", value |-> v]

NameError(name) == [status |-> "NameError", value |-> name]

\* the frames the concat and merge cells build
Df1 == DataFrameFromSeries(<<"A", "B">>, << <<1, 2, 3>>, <<4, 5, 6>> >>)

Df2Axis0 == DataFrameFromSeries(<<"A", "B">>, << <<7>>, <<10>> >>)

Df2Aligned == DataFrameFromSeries(<<"B", "C">>, << <<7, 8, 9>>, <<10, 11, 12>> >>)

Df2Misaligned == DataFrameFromSeries(<<"B", "C">>, << <<7>>, <<10>> >>)

Df2Merge == DataFrameFromSeries(<<"A", "C">>, << <<4>>, <<7>> >>)

\* import pandas as pd; scoreboard = [...]; df = pd.DataFrame(scoreboard)
RunBuild(n) ==
    [ns |-> Bind(Bind(Bind(n, "pd", "module pandas"), "scoreboard", scoreboard),
                 "df", DataFrameFromRecords(scoreboard, ScoreColumns, ScoreDtypes)),
     out |-> Ok(None)]

\* df.groupby('country')
RunGroupBy(n) ==
    IF n["df"] = Unbound THEN [ns |-> n, out |-> NameError("df")]
    ELSE [ns |-> n, out |-> Ok(GroupBy(n["df"][1], <<"country">>))]

\* the names group and mini_df after a loop over groups
BindLoop(n, groups) ==
    IF groups = <<>> THEN n
    ELSE Bind(Bind(n, "group", Label(groups[Len(groups)].key)), "mini_df", groups[Len(groups)].frame)

\* RunIterGroups, its loop variable named df
RunIterGroups_m(n) ==
    IF n["df"] = Unbound THEN [ns |-> n, out |-> NameError("df")]
    ELSE LET groups == GroupBy(n["df"][1], <<"country">>) IN
         [ns |-> IF groups = <<>> THEN n
                 ELSE Bind(Bind(n, "group", Label(groups[Len(groups)].key)), "df", groups[Len(groups)].frame),
          out |-> Ok([g \in 1..Len(groups) |-> <<Label(groups[g].key), groups[g].frame>>])]

\* for group, mini_df in df.groupby('country'): print group and mini_df
RunIterGroups(n) ==
    IF n["df"] = Unbound THEN [ns |-> n, out |-> NameError("df")]
    ELSE LET groups == GroupBy(n["df"][1], <<"country">>) IN
         [ns |-> BindLoop(n, groups),
          out |-> Ok([g \in 1..Len(groups) |-> <<Label(groups[g].key), groups[g].frame>>])]

\* for group, mini_df in df.groupby('country'): print group, mini_df.best_score.mean()
RunMeanLoop(n) ==
    IF n["df"] = Unbound THEN [ns |-> n, out |-> NameError("df")]
    ELSE LET groups == GroupBy(n["df"][1], <<"country">>) IN
         [ns |-> BindLoop(n, groups),
          out |-> Ok([g \in 1..Len(groups) |->
                        <<Label(groups[g].key), Mean(Column(groups[g].frame, "best_score"))>>])]

\* def get_mean(df): ...; df.groupby('country').apply(get_mean)
RunApplyGetMean(n) ==
    LET n1 == Bind(n, "get_mean", "function get_mean") IN
    IF n1["df"] = Unbound THEN [ns |-> n1, out |-> NameError("df")]
    ELSE LET groups == GroupBy(n1["df"][1], <<"country">>) IN
         [ns |-> n1, out |-> Ok(Apply(groups, [g \in 1..Len(groups) |-> get_mean(groups[g].frame)]))]

\* def best_player(df): ...; best_player(df)
RunBestPlayer(n) ==
    LET n1 == Bind(n, "best_player", "function best_player") IN
    IF n1["df"] = Unbound THEN [ns |-> n1, out |-> NameError("df")]
    ELSE [ns |-> n1, out |-> Ok(best_player(n1["df"][1]))]

\* a cell of comments only
RunComments(n) == [ns |-> n, out |-> Ok(None)]

\* df.groupby('country').mean()
RunBuiltinMean(n) ==
    IF n["df"] = Unbound THEN [ns |-> n, out |-> NameError("df")]
    ELSE [ns |-> n, out |-> Ok(GroupByMean(n["df"][1], <<"country">>))]

\* def level_mean(df): pass; df.groupby('country').apply(level_mean)
RunLevelMean(n) ==
    LET n1 == Bind(n, "level_mean", "function level_mean") IN
    IF n1["df"] = Unbound THEN [ns |-> n1, out |-> NameError("df")]
    ELSE LET groups == GroupBy(n1["df"][1], <<"country">>) IN
         [ns |-> n1, out |-> Ok(Apply(groups, [g \in 1..Len(groups) |-> level_mean(groups[g].frame)]))]

\* df.groupby(['country', 'level']).mean().best_score
RunMultiGroupBy(n) ==
    IF n["df"] = Unbound THEN [ns |-> n, out |-> NameError("df")]
    ELSE [ns |-> n, out |-> Ok(Column(GroupByMean(n["df"][1], <<"country", "level">>), "best_score"))]

\* list(df.groupby(['country', 'level']))
RunListMulti(n) ==
    IF n["df"] = Unbound THEN [ns |-> n, out |-> NameError("df")]
    ELSE LET groups == GroupBy(n["df"][1], <<"country", "level">>) IN
         [ns |-> n, out |-> Ok([g \in 1..Len(groups) |-> <<Label(groups[g].key), groups[g].frame>>])]

\* df1 = ...; df2 = ...; pd.concat([df1, df2], axis=0)
RunConcatAxis0(n) ==
    IF n["pd"] = Unbound THEN [ns |-> n, out |-> NameError("pd")]
    ELSE LET n1 == Bind(Bind(n, "df1", Df1), "df2", Df2Axis0) IN
         [ns |-> n1, out |-> Ok(ConcatAxis0(n1["df1"][1], n1["df2"][1]))]

\* RunConcatAligned, without its own df2
RunConcatAligned_m(n) ==
    IF n["pd"] = Unbound THEN [ns |-> n, out |-> NameError("pd")]
    ELSE LET n1 == Bind(n, "df1", Df1) IN
         IF n1["df2"] = Unbound THEN [ns |-> n1, out |-> NameError("df2")]
         ELSE [ns |-> n1, out |-> Ok(ConcatAxis1(n1["df1"][1], n1["df2"][1]))]

\* df1 = ...; df2 = ...; pd.concat([df1, df2], axis=1), same rows
RunConcatAligned(n) ==
    IF n["pd"] = Unbound THEN [ns |-> n, out |-> NameError("pd")]
    ELSE LET n1 == Bind(Bind(n, "df1", Df1), "df2", Df2Aligned) IN
         [ns |-> n1, out |-> Ok(ConcatAxis1(n1["df1"][1], n1["df2"][1]))]

\* df1 = ...; df2 = ...; pd.concat([df1, df2], axis=1), rows that do not align
RunConcatMisaligned(n) ==
    IF n["pd"] = Unbound THEN [ns |-> n, out |-> NameError("pd")]
    ELSE LET n1 == Bind(Bind(n, "df1", Df1), "df2", Df2Misaligned) IN
         [ns |-> n1, out |-> Ok(ConcatAxis1(n1["df1"][1], n1["df2"][1]))]

\* df1 = ...; df2 = ...  (the merge is left to the reader)
RunMergePlay(n) ==
    IF n["pd"] = Unbound THEN [ns |-> n, out |-> NameError("pd")]
    ELSE [ns |-> Bind(Bind(n, "df1", Df1), "df2", Df2Merge), out |-> Ok(None)]

\* raw_tweets = [...]; tweets = pd.DataFrame(raw_tweets); tweets
RunRawTweets(n) ==
    LET n1 == Bind(n, "raw_tweets", raw_tweets) IN
    IF n1["pd"] = Unbound THEN [ns |-> n1, out |-> NameError("pd")]
    ELSE LET t == DataFrameFromRecords(n1["raw_tweets"][1], TweetColumns,
                                       <<"object", "object", "object", "object">>)
         IN [ns |-> Bind(n1, "tweets", t), out |-> Ok(t)]

\* tweets = pd.DataFrame(raw_tweets, columns=["screenname", "id_str", "text"]); tweets
RunTweetColumns(n) ==
    IF n["pd"] = Unbound THEN [ns |-> n, out |-> NameError("pd")]
    ELSE IF n["raw_tweets"] = Unbound THEN [ns |-> n, out |-> NameError("raw_tweets")]
    ELSE LET t == DataFrameFromRecords(n["raw_tweets"][1], SubSeq(TweetColumns, 1, 3),
                                       <<"object", "object", "object">>)
         IN [ns |-> Bind(n, "tweets", t), out |-> Ok(t)]

\* the code cells, top to bottom
Cells == <<"build", "groupby", "iter_groups", "mean_loop", "apply_get_mean", "best_player",
           "second_best", "builtin_mean", "level_mean", "multi_groupby", "list_multi",
           "concat_axis0", "concat_aligned", "concat_misaligned", "merge_play",
           "raw_tweets", "tweet_columns", "hashtags", "merge_tweets">>

RunCell(c, n) ==
    CASE c = "build" -> RunBuild(n)
      [] c = "groupby" -> RunGroupBy(n)
      [] c = "iter_groups" -> RunIterGroups(n)
      [] c = "mean_loop" -> RunMeanLoop(n)
      [] c = "apply_get_mean" -> RunApplyGetMean(n)
      [] c = "best_player" -> RunBestPlayer(n)
      [] c = "builtin_mean" -> RunBuiltinMean(n)
      [] c = "level_mean" -> RunLevelMean(n)
      [] c = "multi_groupby" -> RunMultiGroupBy(n)
      [] c = "list_multi" -> RunListMulti(n)
      [] c = "concat_axis0" -> RunConcatAxis0(n)
      [] c = "concat_aligned" -> RunConcatAligned(n)
      [] c = "concat_misaligned" -> RunConcatMisaligned(n)
      [] c = "merge_play" -> RunMergePlay(n)
      [] c = "raw_tweets" -> RunRawTweets(n)
      [] c = "tweet_columns" -> RunTweetColumns(n)
      [] OTHER -> RunComments(n)

\* the names a cell looks up before it binds them itself, in the order it
\* looks them up
ReadsOf(c) ==
    CASE c \in {"groupby", "iter_groups", "mean_loop", "apply_get_mean", "best_player",
                "builtin_mean", "level_mean", "multi_groupby", "list_multi"} -> <<"df">>
      [] c \in {"concat_axis0", "concat_aligned", "concat_misaligned", "merge_play",
                "raw_tweets"} -> <<"pd">>
      [] c = "tweet_columns" -> <<"pd", "raw_tweets">>
      [] OTHER -> <<>>

CellPos(c) == CHOOSE k \in 1..Len(Cells) : Cells[k] = c

\* the namespace after the first k cells ran top to bottom in a fresh session
RECURSIVE NsAfter(_)
NsAfter(k) == IF k = 0 THEN NoNames ELSE RunCell(Cells[k], NsAfter(k - 1)).ns

\* the outcome of every cell in the top-to-bottom run
TopDown == [k \in 1..Len(Cells) |-> RunCell(Cells[k], NsAfter(k - 1)).out]

(***************************************************************************)
(* One action per code cell: running it binds names and leaves an outcome. *)
(***************************************************************************)
CellBuild ==
    /\ ns' = RunCell("build", ns).ns
    /\ last' = [cell |-> "build", out |-> RunCell("build", ns).out]

CellGroupBy ==
    /\ ns' = RunCell("groupby", ns).ns
    /\ last' = [cell |-> "groupby", out |-> RunCell("groupby", ns).out]

CellIterGroups ==
    /\ ns' = RunCell("iter_groups", ns).ns
    /\ last' = [cell |-> "iter_groups", out |-> RunCell("iter_groups", ns).out]

CellMeanLoop ==
    /\ ns' = RunCell("mean_loop", ns).ns
    /\ last' = [cell |-> "mean_loop", out |-> RunCell("mean_loop", ns).out]

CellApplyGetMean ==
    /\ ns' = RunCell("apply_get_mean", ns).ns
    /\ last' = [cell |-> "apply_get_mean", out |-> RunCell("apply_get_mean", ns).out]

CellBestPlayer ==
    /\ ns' = RunCell("best_player", ns).ns
    /\ last' = [cell |-> "best_player", out |-> RunCell("best_player", ns).out]

CellSecondBest ==
    /\ ns' = RunCell("second_best", ns).ns
    /\ last' = [cell |-> "second_best", out |-> RunCell("second_best", ns).out]

CellBuiltinMean ==
    /\ ns' = RunCell("builtin_mean", ns).ns
    /\ last' = [cell |-> "builtin_mean", out |-> RunCell("builtin_mean", ns).out]

CellLevelMean ==
    /\ ns' = RunCell("level_mean", ns).ns
    /\ last' = [cell |-> "level_mean", out |-> RunCell("level_mean", ns).out]

CellMultiGroupBy ==
    /\ ns' = RunCell("multi_groupby", ns).ns
    /\ last' = [cell |-> "multi_groupby", out |-> RunCell("multi_groupby", ns).out]

CellListMulti ==
    /\ ns' = RunCell("list_multi", ns).ns
    /\ last' = [cell |-> "list_multi", out |-> RunCell("list_multi", ns).out]

CellConcatAxis0 ==
    /\ ns' = RunCell("concat_axis0", ns).ns
    /\ last' = [cell |-> "concat_axis0", out |-> RunCell("concat_axis0", ns).out]

CellConcatAligned ==
    /\ ns' = RunCell("concat_aligned", ns).ns
    /\ last' = [cell |-> "concat_aligned", out |-> RunCell("concat_aligned", ns).out]

CellConcatMisaligned ==
    /\ ns' = RunCell("concat_misaligned", ns).ns
    /\ last' = [cell |-> "concat_misaligned", out |-> RunCell("concat_misaligned", ns).out]

CellMergePlay ==
    /\ ns' = RunCell("merge_play", ns).ns
    /\ last' = [cell |-> "merge_play", out |-> RunCell("merge_play", ns).out]

CellRawTweets ==
    /\ ns' = RunCell("raw_tweets", ns).ns
    /\ last' = [cell |-> "raw_tweets", out |-> RunCell("raw_tweets", ns).out]

CellTweetColumns ==
    /\ ns' = RunCell("tweet_columns", ns).ns
    /\ last' = [cell |-> "tweet_columns", out |-> RunCell("tweet_columns", ns).out]

CellHashtags ==
    /\ ns' = RunCell("hashtags", ns).ns
    /\ last' = [cell |-> "hashtags", out |-> RunCell("hashtags", ns).out]

CellMergeTweets ==
    /\ ns' = RunCell("merge_tweets", ns).ns
    /\ last' = [cell |-> "merge_tweets", out |-> RunCell("merge_tweets", ns).out]

NoCell == [cell |-> "none", out |-> Ok(None)]

Init ==
    /\ ns = NoNames
    /\ last = NoCell

Next ==
    \/ CellBuild
    \/ CellGroupBy
    \/ CellIterGroups
    \/ CellMeanLoop
    \/ CellApplyGetMean
    \/ CellBestPlayer
    \/ CellSecondBest
    \/ CellBuiltinMean
    \/ CellLevelMean
    \/ CellMultiGroupBy
    \/ CellListMulti
    \/ CellConcatAxis0
    \/ CellConcatAligned
    \/ CellConcatMisaligned
    \/ CellMergePlay
    \/ CellRawTweets
    \/ CellTweetColumns
    \/ CellHashtags
    \/ CellMergeTweets

Spec == Init /\ [][Next]_vars

(***************************************************************************)
(* Split-apply-combine on any small score table: the session after the     *)
(* first cell, the scoreboard literal ranging over the tables of at most   *)
(* MaxRows records, and the cells that split df by country.                *)
(***************************************************************************)
ScoreRecords ==
    [player : {"saphyre"}, best_score : {100, 250}, last_score : {100},
     country : {"gr", "no"}, level : {"n00b", "expert"}]

ScoreLists == {scoreboard} \cup UNION {[1..n -> ScoreRecords] : n \in 0..MaxRows}

InitGroupBy ==
    /\ \E recs \in ScoreLists :
          ns = Bind(Bind(Bind(NoNames, "pd", "module pandas"), "scoreboard", recs),
                    "df", DataFrameFromRecords(recs, ScoreColumns, ScoreDtypes))
    /\ last = NoCell

NextGroupBy ==
    \/ CellGroupBy
    \/ CellIterGroups
    \/ CellMeanLoop
    \/ CellApplyGetMean

SpecGroupBy == InitGroupBy /\ [][NextGroupBy]_vars

(***************************************************************************)
(* Concat and merge on any two small frames: the session after a cell      *)
(* bound df1 and df2, the literals ranging over frames of at most MaxLen   *)
(* rows, and the expressions the cells and the Merge section give.         *)
(***************************************************************************)
KeyLists == UNION {[1..n -> 1..MaxKey] : n \in 0..MaxLen}

\* a frame of the given columns whose column A holds the keys and whose
\* other columns hold values that tell the frame, the column and the row
GenFrame(cols, keys, base) ==
    DataFrameFromSeries(cols, [j \in 1..Len(cols) |->
        IF cols[j] = "A" THEN keys ELSE [i \in 1..Len(keys) |-> base + 10 * j + i]])

LeftFrames == {GenFrame(<<"A", "B">>, k, 100) : k \in KeyLists}

RightFrames ==
    {GenFrame(c, k, 200) : c \in {<<"A", "B">>, <<"B", "A">>, <<"A", "C">>}, k \in KeyLists}
    \cup {GenFrame(<<"B", "C">>, [i \in 1..n |-> 0], 200) : n \in 0..MaxLen}

FramePairs ==
    (LeftFrames \X RightFrames)
    \cup {<<Df1, Df2Axis0>>, <<Df1, Df2Aligned>>, <<Df1, Df2Misaligned>>, <<Df1, Df2Merge>>}

InitCombine ==
    /\ \E p \in FramePairs :
          ns = Bind(Bind(Bind(NoNames, "pd", "module pandas"), "df1", p[1]), "df2", p[2])
    /\ last = NoCell

\* pd.concat([df1, df2], axis=0)
TryConcatAxis0 ==
    /\ last' = [cell |-> "try_concat_axis0", out |-> Ok(ConcatAxis0(ns["df1"][1], ns["df2"][1]))]
    /\ UNCHANGED ns

\* pd.concat([df1, df2], axis=1)
TryConcatAxis1 ==
    /\ last' = [cell |-> "try_concat_axis1", out |-> Ok(ConcatAxis1(ns["df1"][1], ns["df2"][1]))]
    /\ UNCHANGED ns

\* pd.merge(df1, df2, how=how, on='A'): KeyError when a frame has no column A
RunMerge(n, how) ==
    IF HasColumn(n["df1"][1], "A") /\ HasColumn(n["df2"][1], "A")
    THEN Ok(Merge(n["df1"][1], n["df2"][1], how, "A"))
    ELSE [status |-> "KeyError", value |-> "A"]

TryMergeInner ==
    /\ last' = [cell |-> "try_merge_inner", out |-> RunMerge(ns, "inner")]
    /\ UNCHANGED ns

TryMergeOuter ==
    /\ last' = [cell |-> "try_merge_outer", out |-> RunMerge(ns, "outer")]
    /\ UNCHANGED ns

TryMergeLeft ==
    /\ last' = [cell |-> "try_merge_left", out |-> RunMerge(ns, "left")]
    /\ UNCHANGED ns

TryMergeRight ==
    /\ last' = [cell |-> "try_merge_right", out |-> RunMerge(ns, "right")]
    /\ UNCHANGED ns

NextCombine ==
    \/ TryConcatAxis0
    \/ TryConcatAxis1
    \/ TryMergeInner
    \/ TryMergeOuter
    \/ TryMergeLeft
    \/ TryMergeRight

SpecCombine == InitCombine /\ [][NextCombine]_vars

(***************************************************************************)
(* Properties.                                                             *)
(***************************************************************************)
RanOk(c) == last.cell = c /\ last.out.status = "ok"

CountryOf(f, i) == f.rows[i][ColPos(f, "country")][1]

BestScoreOf(f, i) == f.rows[i][ColPos(f, "best_score")][1]

Countries(f) == {CountryOf(f, i) : i \in 1..NRows(f)}

HasNaN(f) == \E i \in 1..NRows(f) : \E j \in 1..Len(f.columns) : f.rows[i][j] = NaN

\* C1: iterating df.groupby('country') yields one (key, mini-dataframe) pair
\* per distinct country; each mini-dataframe holds exactly the rows of df
\* with that country, with their index labels and in their order; the groups
\* are non-empty, disjoint and cover df; for the scoreboard 'gr' has rows
\* 0..3 and 'no' has rows 4..7.
C1_GroupsPartitionRows ==
    RanOk("iter_groups") =>
        LET df == ns["df"][1]
            pairs == last.out.value
            places == UNION {{<<g, k>> : k \in 1..NRows(pairs[g][2])} : g \in 1..Len(pairs)}
        IN /\ {pairs[g][1] : g \in 1..Len(pairs)} = Countries(df)
           /\ Len(pairs) = Cardinality(Countries(df))
           /\ \A g \in 1..Len(pairs) :
                LET m == pairs[g][2] IN
                /\ NRows(m) >= 1
                /\ Len(m.index) = NRows(m)
                /\ m.columns = df.columns
                /\ \A k \in 1..NRows(m) :
                      \E i \in 1..NRows(df) : /\ df.index[i] = m.index[k]
                                              /\ df.rows[i] = m.rows[k]
                                              /\ CountryOf(df, i) = pairs[g][1]
                /\ \A k \in 1..(NRows(m) - 1) : m.index[k] < m.index[k + 1]
           /\ \A i \in 1..NRows(df) :
                /\ Cardinality({p \in places : pairs[p[1]][2].index[p[2]] = df.index[i]}) = 1
                /\ \A p \in places : pairs[p[1]][2].index[p[2]] = df.index[i]
                                        => pairs[p[1]][1] = CountryOf(df, i)
           /\ ns["scoreboard"][1] = scoreboard =>
                /\ Len(pairs) = 2
                /\ pairs[1][1] = "gr" /\ pairs[1][2].index = <<0, 1, 2, 3>>
                /\ pairs[2][1] = "no" /\ pairs[2][2].index = <<4, 5, 6, 7>>

\* a table of interleaved countries was split: the first group took rows 0 and 2
C1_Witness ==
    /\ RanOk("iter_groups")
    /\ Len(last.out.value) = 2
    /\ last.out.value[1][2].index = <<0, 2>>
    /\ last.out.value[2][2].index = <<1>>

\* C2: df.groupby('country').apply(get_mean) has one entry per distinct
\* country, labelled by the country, whose value is the sum of best_score
\* over the country's rows divided by their count; it equals, key for key,
\* what the loop over the groups prints; for the scoreboard gr = 300.0 and
\* no = 187.5.
C2_ApplyGetMeanIsGroupMean ==
    RanOk("apply_get_mean") =>
        LET df == ns["df"][1]
            e == Entries(last.out.value)
            loop == RunMeanLoop(ns).out.value
            total(c) == SumSeq([i \in 1..NRows(df) |-> IF CountryOf(df, i) = c THEN BestScoreOf(df, i) ELSE 0])
            count(c) == Cardinality({i \in 1..NRows(df) : CountryOf(df, i) = c})
        IN /\ {e[g][1] : g \in 1..Len(e)} = Countries(df)
           /\ Len(e) = Cardinality(Countries(df))
           /\ \A g \in 1..Len(e) :
                /\ e[g][2].kind = "float"
                /\ e[g][2].den > 0
                /\ e[g][2].num * count(e[g][1]) = total(e[g][1]) * e[g][2].den
           /\ Len(loop) = Len(e)
           /\ \A g \in 1..Len(e) : loop[g][1] = e[g][1] /\ loop[g][2] = e[g][2]
           /\ ns["scoreboard"][1] = scoreboard =>
                e = << <<"gr", [kind |-> "float", num |-> 300, den |-> 1]>>,
                       <<"no", [kind |-> "float", num |-> 375, den |-> 2]>> >>

\* get_mean was applied to the groups of the scoreboard
C2_Witness ==
    /\ RanOk("apply_get_mean")
    /\ ns["scoreboard"][1] = scoreboard
    /\ last.out.value.kind = "Series"
    /\ last.out.value.index = <<"gr", "no">>
    /\ last.out.value.values[2].den = 2

MergeCells == {"try_merge_inner", "try_merge_outer", "try_merge_left", "try_merge_right"}

\* C3: the keys of pd.merge(left, right, how, on) are the intersection of the
\* two key sets for 'inner', their union for 'outer', the left key set for
\* 'left' and the right key set for 'right'; in a row whose key one side
\* lacks, the columns of that side are missing; df1 (A in 1,2,3) and df2
\* (A in 4) give 0, 4, 3 and 1 rows.
C3_MergeKeys ==
    (last.cell \in MergeCells /\ last.out.status = "ok") =>
        LET l == ns["df1"][1]
            r == ns["df2"][1]
            res == last.out.value
            kl == KeySet(l, "A")
            kr == KeySet(r, "A")
            nl == Len(l.columns)
        IN /\ KeySet(res, "A") = CASE last.cell = "try_merge_inner" -> kl \cap kr
                                   [] last.cell = "try_merge_outer" -> kl \cup kr
                                   [] last.cell = "try_merge_left" -> kl
                                   [] last.cell = "try_merge_right" -> kr
           /\ \A i \in 1..NRows(res) :
                /\ KeyOf(res, "A", i) \notin kr =>
                      \A j \in (nl + 1)..Len(res.columns) : res.rows[i][j] = NaN
                /\ KeyOf(res, "A", i) \notin kl =>
                      \A j \in 1..nl : l.columns[j] # "A" => res.rows[i][j] = NaN
           /\ (l = Df1 /\ r = Df2Merge) =>
                /\ NRows(res) = CASE last.cell = "try_merge_inner" -> 0
                                  [] last.cell = "try_merge_outer" -> 4
                                  [] last.cell = "try_merge_left" -> 3
                                  [] last.cell = "try_merge_right" -> 1
                /\ last.cell = "try_merge_left" =>
                      \A i \in 1..3 : res.rows[i][3] = NaN /\ res.rows[i][2] # NaN
                /\ last.cell = "try_merge_right" =>
                      res.rows[1][2] = NaN /\ res.rows[1][3] # NaN

\* an outer merge of frames with a shared key and a key on each side only
C3_Witness ==
    /\ RanOk("try_merge_outer")
    /\ KeySet(ns["df1"][1], "A") \cap KeySet(ns["df2"][1], "A") # {}
    /\ KeySet(ns["df1"][1], "A") \ KeySet(ns["df2"][1], "A") # {}
    /\ KeySet(ns["df2"][1], "A") \ KeySet(ns["df1"][1], "A") # {}
    /\ HasNaN(last.out.value)

\* C4: pd.concat([df1, df2], axis=1) lines the frames up by index label: the
\* index is the union of the two indexes, the columns are those of df1 then
\* those of df2, and a cell is missing exactly where its label does not
\* exist in the frame its column came from; df1 with index 0..2 and df2 with
\* index 0 give 3 rows with df2's columns missing in rows 1 and 2, and two
\* frames with index 0..2 give no missing value.
C4_ConcatColumnsByLabel ==
    RanOk("try_concat_axis1") =>
        LET a == ns["df1"][1]
            b == ns["df2"][1]
            res == last.out.value
            na == Len(a.columns)
            at(f, l) == CHOOSE i \in 1..NRows(f) : f.index[i] = l
        IN /\ Elems(res.index) = Elems(a.index) \cup Elems(b.index)
           /\ Len(res.index) = Cardinality(Elems(res.index))
           /\ NRows(res) = Len(res.index)
           /\ res.columns = a.columns \o b.columns
           /\ \A i \in 1..NRows(res) : \A j \in 1..Len(res.columns) :
                LET src == IF j <= na THEN a ELSE b
                    sj == IF j <= na THEN j ELSE j - na
                IN IF res.index[i] \in Elems(src.index)
                   THEN res.rows[i][j] = src.rows[at(src, res.index[i])][sj]
                   ELSE res.rows[i][j] = NaN
           /\ (a = Df1 /\ b = Df2Misaligned) =>
                /\ res.index = <<0, 1, 2>>
                /\ res.columns = <<"A", "B", "B", "C">>
                /\ res.rows[1] = <<V(1), V(4), V(7), V(10)>>
                /\ res.rows[2] = <<V(2), V(5), NaN, NaN>>
                /\ res.rows[3] = <<V(3), V(6), NaN, NaN>>
           /\ (a.index = b.index /\ ~HasNaN(a) /\ ~HasNaN(b)) => ~HasNaN(res)

\* the notebook's misaligned frames were concatenated side by side
C4_Witness ==
    /\ RanOk("try_concat_axis1")
    /\ ns["df1"][1] = Df1
    /\ ns["df2"][1] = Df2Misaligned
    /\ HasNaN(last.out.value)

\* C5: pd.concat([df1, df2], axis=0) on frames with the same columns returns
\* the rows of df1 then the rows of df2: len(df1) + len(df2) rows, the cell
\* values unchanged, no missing value, every row with the index label it
\* had in its frame, so labels can repeat (0,1,2,0 in the notebook).
C5_ConcatRowsKeepLabels ==
    (RanOk("try_concat_axis0") /\ Elems(ns["df1"][1].columns) = Elems(ns["df2"][1].columns)) =>
        LET a == ns["df1"][1]
            b == ns["df2"][1]
            res == last.out.value
        IN /\ NRows(res) = NRows(a) + NRows(b)
           /\ res.index = a.index \o b.index
           /\ Elems(res.columns) = Elems(a.columns)
           /\ Len(res.columns) = Len(a.columns)
           /\ \A c \in Elems(a.columns) :
                /\ \A i \in 1..NRows(a) : res.rows[i][ColPos(res, c)] = a.rows[i][ColPos(a, c)]
                /\ \A i \in 1..NRows(b) : res.rows[NRows(a) + i][ColPos(res, c)] = b.rows[i][ColPos(b, c)]
                /\ res.dtypes[ColPos(res, c)] = a.dtypes[ColPos(a, c)]
           /\ ~HasNaN(res)
           /\ (a = Df1 /\ b = Df2Axis0) =>
                /\ res.index = <<0, 1, 2, 0>>
                /\ res.rows = << <<V(1), V(4)>>, <<V(2), V(5)>>, <<V(3), V(6)>>, <<V(7), V(10)>> >>

\* two frames with the same columns in another order were stacked and a
\* label repeats
C5_Witness ==
    /\ RanOk("try_concat_axis0")
    /\ ns["df1"][1].columns = <<"A", "B">>
    /\ ns["df2"][1].columns = <<"B", "A">>
    /\ NRows(ns["df1"][1]) = 2
    /\ NRows(ns["df2"][1]) = 1
    /\ last.out.value.index = <<0, 1, 0>>

\* C6: df.groupby(['country', 'level']).mean().best_score has one entry per
\* (country, level) pair that occurs in df and equals the result of the
\* preceding cell, df.groupby('country').apply(level_mean).
C6_MultiGroupByEqualsLevelMean ==
    RanOk("multi_groupby") =>
        LET df == ns["df"][1]
            res == Entries(last.out.value)
            lm == Entries(RunLevelMean(ns).out.value)
            occurring == {RowKey(df, <<"country", "level">>, i) : i \in 1..NRows(df)}
        IN /\ Len(res) = Cardinality(occurring)
           /\ {res[g][1] : g \in 1..Len(res)} = occurring
           /\ Len(lm) = Len(res)
           /\ \A g \in 1..Len(res) : lm[g] = res[g]

\* C7: best_player returns the row of the player with the highest best_score
\* of the dataframe it is given.
C7_BestPlayerReturnsBestRow ==
    RanOk("best_player") =>
        LET df == ns["df"][1]
            res == last.out.value
        IN /\ NRows(res) = 1
           /\ \E i \in 1..NRows(df) : df.rows[i] = res.rows[1]
           /\ \A i \in 1..NRows(df) : BestScoreOf(df, i) <= BestScoreOf(res, 1)

SameOutcome(a, b) == a.status = b.status /\ a.value = b.value

\* C8 as stated: whatever ran before it, a code cell has the outcome it has
\* in the top-to-bottom run.
C8_OutcomeIndependentOfOrder ==
    last.cell # "none" => SameOutcome(last.out, TopDown[CellPos(last.cell)])

\* C8, amended: a cell's outcome depends on the cells run before it only
\* through the names it reads from them (pd and df of the first cell,
\* raw_tweets of the raw-tweets cell): when they are bound the outcome is
\* that of the top-to-bottom run, otherwise the cell fails with NameError on
\* the first of them that is unbound.
C8_OutcomeDependsOnReadNames ==
    [][LET c == last'.cell
           missing == SelectSeq(ReadsOf(c), LAMBDA x : ns[x] = Unbound)
       IN IF missing = <<>>
          THEN SameOutcome(last'.out, TopDown[CellPos(c)])
          ELSE last'.out.status = "NameError" /\ last'.out.value = missing[1]]_vars

\* a cell ran with the top-to-bottom outcome although the cells between the
\* first cell and it never ran and a later cell ran before it
C8_Witness ==
    /\ RanOk("concat_misaligned")
    /\ ns["df"] # Unbound
    /\ ns["get_mean"] = Unbound
    /\ ns["mini_df"] = Unbound
    /\ ns["tweets"] # Unbound
    /\ HasNaN(last.out.value)

HoldsScoreboard(f) ==
    /\ f.index = <<0, 1, 2, 3, 4, 5, 6, 7>>
    /\ f.columns = <<"player", "best_score", "last_score", "country", "level">>
    /\ NRows(f) = 8
    /\ \A i \in 1..8 : \A j \in 1..5 : f.rows[i][j] = V(scoreboard[i][f.columns[j]])

====
